---- MODULE Spec2Model ----
(***************************************************************************)
(* Model of l2_compress (notebooks/basic_example.ipynb): compression of a  *)
(* key/value cache by keeping, per layer and per (batch, head) slice, the  *)
(* tokens whose key vectors have the smallest L2 norm.                     *)
(*                                                                         *)
(* A tensor of shape (batch, heads, seq_len, head_dim) is a function from  *)
(* the (batch, head) slices to sequences (the seq_len axis) of vectors     *)
(* (the head_dim axis).  A layer is the pair (keys, values); a cache       *)
(* snapshot is a sequence of layers.  Python indices are 0-based, TLA+     *)
(* sequences 1-based: layer index `layer` is element layer + 1.            *)
(***************************************************************************)
EXTENDS Integers, Sequences, FiniteSets, TLC

\* ------------------------------------------------------------- bounds
MaxSeqLen == 3
NumLayers == 2
MaxCalls == 2

\* The (batch, head) slices of every tensor: batch 1, two heads.
Slices == {"b0h0", "b0h1"}
\* Key vectors the runtime may produce (head_dim 2).  Head 0 holds vectors of
\* Head0Keys (norms 5 and 1); head 1 holds the vector OtherHead gives for the
\* one head 0 holds at the same position (norms 1 and 5), so that the two
\* slices of a layer have opposite norm orders.
Head0Keys == {<<3, 4>>, <<0, 1>>}
OtherHead(k) == IF k = <<3, 4>> THEN <<0, 1>> ELSE <<5, 0>>
KeyVecs == Head0Keys \cup {OtherHead(k) : k \in Head0Keys}
HeadDim == Len(CHOOSE k \in KeyVecs : TRUE)

\* keep_ratio values <<numerator, denominator>>: -0.5, 0, 0.5, 0.6, 1, 1.5.
\* For each of them the IEEE double product keep_ratio * n has the same
\* ceiling as the exact product, for every n the model reaches.
KeepRatios == {<<-1, 2>>, <<0, 1>>, <<1, 2>>, <<3, 5>>, <<1, 1>>, <<3, 2>>}
PruneAfters == (-1) .. MaxSeqLen
\* skip_layers lists; index NumLayers is not a layer of the snapshot.
SkipLayers == {s \in SUBSET (0 .. NumLayers) : Cardinality(s) <= 1}

VARIABLES
    past_key_values,   \* the cache object the caller hands to l2_compress
    keep_ratio,        \* arguments of the last call
    prune_after,
    skip_layers,
    snapshot,          \* content of the caller's cache when the call was made
    compressed_cache,  \* what the last call returned (<<>> if it raised)
    status,            \* "ready" | "returned" | "raised" | "passed"
    calls              \* number of calls made so far

vars == <<past_key_values, keep_ratio, prune_after, skip_layers, snapshot,
          compressed_cache, status, calls>>

\* ------------------------------------------------------------ helpers
AnySlice == CHOOSE s \in Slices : TRUE

\* kv[0].size(2) / keys.size(2)
size2(kv) == Len(kv.keys[AnySlice])

\* math.ceil(a / b) for b > 0
Ceil(a, b) == -((-a) \div b)

\* a Python slice x[:k]
PySlice(x, k) ==
    LET n == Len(x) IN
    IF k >= n THEN x
    ELSE IF k >= 0 THEN SubSeq(x, 1, k)
    ELSE SubSeq(x, 1, IF n + k > 0 THEN n + k ELSE 0)

\* tokens_to_keep = ceil(keep_ratio * keys.size(2))
tokens_to_drop(ratio, n) == n - Ceil(ratio[1] * n, ratio[2])

tokens_to_keep_floor(ratio, n) == (ratio[1] * n) \div ratio[2]

tokens_to_keep(ratio, n) == Ceil(ratio[1] * n, ratio[2])

RECURSIVE SumSq(_)
SumSq(v) == IF v = <<>> THEN 0 ELSE Head(v) * Head(v) + SumSq(Tail(v))

\* torch.norm(v, p=2): the key vectors of the model have integer norms
L2Norm(v) == LET q == SumSq(v) IN CHOOSE r \in 0 .. q : r * r = q
NormOf == [v \in KeyVecs |-> L2Norm(v)]

\* token_norms = torch.norm(keys, p=2, dim=-1), per slice
token_norms(keys) ==
    [s \in Slices |-> [t \in 1 .. Len(keys[s]) |-> NormOf[keys[s][t]]]]

Perms(n) == {p \in [1 .. n -> 1 .. n] : \A i, j \in 1 .. n : p[i] = p[j] => i = j}
PermsOf == [n \in 0 .. MaxSeqLen |-> Perms(n)]

\* argsort(dim=-1) without stable=True: the norms in ascending order; the
\* order of equal norms is not specified.  The order the sort happens to give
\* them is `rank`, a ranking of the positions that the call draws from
\* TieRanks: by ascending position (what a stable sort gives), by descending
\* position, or by position rotated by one.
TieRanks ==
    {[t \in 1 .. MaxSeqLen |-> t],
     [t \in 1 .. MaxSeqLen |-> MaxSeqLen + 1 - t],
     [t \in 1 .. MaxSeqLen |-> (t % MaxSeqLen) + 1]}

argsort_descending(norms, rank) ==
    CHOOSE p \in PermsOf[Len(norms)] :
        \A i \in 1 .. Len(norms) - 1 :
            \/ norms[p[i]] > norms[p[i + 1]]
            \/ norms[p[i]] = norms[p[i + 1]] /\ rank[p[i]] < rank[p[i + 1]]

argsort(norms, rank) ==
    CHOOSE p \in PermsOf[Len(norms)] :
        \A i \in 1 .. Len(norms) - 1 :
            \/ norms[p[i]] < norms[p[i + 1]]
            \/ norms[p[i]] = norms[p[i + 1]] /\ rank[p[i]] < rank[p[i + 1]]

\* torch.gather(x, dim=2, index) on one slice
gather(x, idx) == [i \in 1 .. Len(idx) |-> x[idx[i]]]

\* Tensor shapes, to decide whether expand() accepts its argument.
KeysShape(kv) == <<1, Cardinality(Slices), size2(kv), HeadDim>>
NormShape(shape) == SubSeq(shape, 1, Len(shape) - 1)
Squeeze(shape) ==
    IF shape[Len(shape)] = 1 THEN SubSeq(shape, 1, Len(shape) - 1) ELSE shape
Unsqueeze(shape) == Append(shape, 1)
\* expand(-1, -1, -1, token_dim): -1 is rejected for a dimension the tensor
\* does not have, so the tensor must already have four dimensions.
ExpandRaises(shape) == Len(shape) # 4

\* sorted_indices, one index row per slice (lines 48-51)
sorted_indices(keys, rank) ==
    [s \in Slices |-> argsort(token_norms(keys)[s], rank)]

\* sorted_keys / sorted_values: both gathered with the same index (lines 55-56)
sorted_keys(keys, idx) == [s \in Slices |-> gather(keys[s], idx[s])]

unsorted_values(values, idx) == values

sorted_values(values, idx) == [s \in Slices |-> gather(values[s], idx[s])]

\* (sorted_keys[:, :, :tokens_to_keep, :], sorted_values[:, :, :tokens_to_keep, :])
truncated(kv, idx, k) ==
    [keys   |-> [s \in Slices |-> PySlice(sorted_keys(kv.keys, idx)[s], k)],
     values |-> [s \in Slices |-> PySlice(sorted_values(kv.values, idx)[s], k)]]

\* The frame of one call: `arg` is the caller's object, `local` the list the
\* function works on, `shared` whether the two are the same object.
\* past_key_values = list(past_key_values) makes a new list.
list_alias(pkv) == [arg |-> pkv, local |-> pkv, shared |-> TRUE, raised |-> FALSE]

list_copy(pkv) == [arg |-> pkv, local |-> pkv, shared |-> FALSE, raised |-> FALSE]

\* past_key_values[layer] = kv
setitem(st, layer, kv) ==
    [st EXCEPT !.local[layer + 1] = kv,
               !.arg = IF st.shared THEN [st.arg EXCEPT ![layer + 1] = kv] ELSE st.arg]

\* if kv[0].size(2) < prune_after: continue
below_prune_after(n, pa) == n < pa

\* if layer not in skip_layers
not_skipped(layer, skip) == layer \notin skip

\* One iteration of the loop (lines 37-59) on the frame st: the frames it can
\* leave.  The sort is computed before skip_layers is looked at.
layer_step(st, layer, ratio, pa, skip, rank) ==
    LET kv == st.local[layer + 1] IN
    IF below_prune_after(size2(kv), pa) THEN {st}
    ELSE IF ExpandRaises(Unsqueeze(Squeeze(NormShape(KeysShape(kv)))))
    THEN {[st EXCEPT !.raised = TRUE]}
    ELSE {IF not_skipped(layer, skip)
          THEN setitem(st, layer,
                       truncated(kv, idx, tokens_to_keep(ratio, size2(kv))))
          ELSE st
          : idx \in {sorted_indices(kv.keys, rank)}}

\* The loop over the layers from index `layer` on; an exception ends it.
RECURSIVE layer_loop(_, _, _, _, _, _)
layer_loop(st, layer, ratio, pa, skip, rank) ==
    IF layer >= Len(st.local) \/ st.raised THEN {st}
    ELSE UNION {layer_loop(x, layer + 1, ratio, pa, skip, rank)
                : x \in layer_step(st, layer, ratio, pa, skip, rank)}

l2_compress(pkv, ratio, pa, skip, rank) ==
    layer_loop(list_copy(pkv), 0, ratio, pa, skip, rank)

\* ------------------------------------------------------ initial states
\* The cache the caller holds: the runtime's forward pass leaves n tokens in
\* every layer, and in a cache that was compressed before the odd layers may
\* hold one token less (short = 1).  The keys of head 0 are drawn freely,
\* head 1 follows from them, and odd layers hold both in reverse order.  Value
\* vectors are modelled by a tag naming the slice and the position the token
\* was cached at, so that every token of the cache is distinguishable.
Tag(s, t) == IF s = "b0h0" THEN 10 + t ELSE 20 + t
Reverse(x) == [i \in 1 .. Len(x) |-> x[Len(x) + 1 - i]]
HeadKeys(base, s) ==
    IF s = "b0h0" THEN base ELSE [t \in 1 .. Len(base) |-> OtherHead(base[t])]

CachedLayer(base, layer, n) ==
    [keys   |-> [s \in Slices |->
                    IF layer % 2 = 0 THEN SubSeq(HeadKeys(base, s), 1, n)
                    ELSE Reverse(SubSeq(HeadKeys(base, s), 1, n))],
     values |-> [s \in Slices |-> [t \in 1 .. n |-> Tag(s, t)]]]

\* The caller fixes the arguments it compresses with (the notebook's
\* keep_ratio=0.6, prune_after=5, skip_layers=[0, 1]).
Init ==
    /\ \E n \in 0 .. MaxSeqLen, short \in {0, 1} :
       \E base \in [1 .. MaxSeqLen -> Head0Keys] :
           past_key_values =
               [l \in 1 .. NumLayers |->
                   CachedLayer(base, l - 1,
                               IF (l - 1) % 2 = 1 /\ n > 0 THEN n - short ELSE n)]
    /\ keep_ratio \in KeepRatios
    /\ prune_after \in PruneAfters
    /\ skip_layers \in SkipLayers
    /\ snapshot = <<>>
    /\ compressed_cache = <<>>
    /\ status = "ready"
    /\ calls = 0

\* ------------------------------------------------------------- actions
\* One call of l2_compress on the cache pkv: the caller's object after the
\* call, the copy of it taken before the call, and what the call returned.
Call(pkv) ==
    \E rank \in TieRanks :
       \E st \in l2_compress(pkv, keep_ratio, prune_after, skip_layers, rank) :
             /\ snapshot' = pkv
             /\ past_key_values' = st.arg
             /\ compressed_cache' = IF st.raised THEN <<>> ELSE st.local
             /\ status' = IF st.raised THEN "raised" ELSE "returned"

\* compressed_cache = l2_compress(outputs.past_key_values, keep_ratio=...,
\*                                prune_after=..., skip_layers=...)
Compress ==
    /\ status = "ready"
    /\ calls < MaxCalls
    /\ calls' = calls + 1
    /\ Call(past_key_values)
    /\ UNCHANGED <<keep_ratio, prune_after, skip_layers>>

\* l2_compress applied to the cache the previous call returned, with the
\* same arguments.  The notebook calls l2_compress once; this is the same
\* function entered again on its own result.
CompressAgain ==
    /\ status = "returned"
    /\ calls < MaxCalls
    /\ calls' = calls + 1
    /\ Call(compressed_cache)
    /\ UNCHANGED <<keep_ratio, prune_after, skip_layers>>

\* outputs = model(input_ids, past_key_values=compressed_cache,
\*                 use_cache=True)
\* The forward pass appends the keys and values of the m new input tokens to
\* every layer of the cache it was given (8 tokens become 12 in the recorded
\* run) and rebinds outputs; compressed_cache is left as it was.  It follows
\* the notebook's one call of l2_compress, and the notebook ends with it.
NewTokenCounts == {1, 2}
NewTag(s, j) == Tag(s, j) + 20
Appended(kv, m, k) ==
    [keys   |-> [s \in Slices |->
                    kv.keys[s] \o HeadKeys([j \in 1 .. m |-> k], s)],
     values |-> [s \in Slices |->
                    kv.values[s] \o [j \in 1 .. m |-> NewTag(s, j)]]]

ForwardPass ==
    /\ status = "returned"
    /\ calls = 1
    /\ \E m \in NewTokenCounts, k \in Head0Keys :
          past_key_values' =
              [l \in 1 .. Len(compressed_cache) |->
                  Appended(compressed_cache[l], m, k)]
    /\ status' = "passed"
    /\ UNCHANGED <<keep_ratio, prune_after, skip_layers, snapshot,
                   compressed_cache, calls>>

Next == Compress \/ CompressAgain \/ ForwardPass

Spec == Init /\ [][Next]_vars

\* ------------------------------------------------------------- claims
Called == status \in {"returned", "raised"}
Returned == status = "returned"
Raised == status = "raised"
LayerIdx == 0 .. Len(snapshot) - 1
SeqLenIn(l) == size2(snapshot[l + 1])
SeqLenOut(l) == size2(compressed_cache[l + 1])
ValidRatio == keep_ratio[1] > 0 /\ keep_ratio[1] <= keep_ratio[2]
ValidConfig == ValidRatio /\ prune_after >= 0
\* the layers the call is to compact
ToCompact(l) == l \notin skip_layers /\ SeqLenIn(l) >= prune_after
\* ceil(keep_ratio * n) for keep_ratio in (0, 1]: the least m with m >= ratio * n
CeilOf(ratio, n) == CHOOSE m \in 0 .. n : m * ratio[2] >= ratio[1] * n
                                        /\ (m - 1) * ratio[2] < ratio[1] * n
Range(f) == {f[i] : i \in DOMAIN f}
Injections(m, n) ==
    {f \in [1 .. m -> 1 .. n] : \A i, j \in 1 .. m : f[i] = f[j] => i = j}
InjOf == [m \in 0 .. MaxSeqLen |-> [n \in 0 .. MaxSeqLen |-> Injections(m, n)]]
\* output position i of slice s of layer l holds the key and the value that
\* input position f[i] of the same slice held
ComesFrom(l, s, f) ==
    \A i \in DOMAIN f :
        /\ compressed_cache[l + 1].keys[s][i] = snapshot[l + 1].keys[s][f[i]]
        /\ compressed_cache[l + 1].values[s][i] = snapshot[l + 1].values[s][f[i]]
NormIn(l, s, t) == NormOf[snapshot[l + 1].keys[s][t]]
NormOut(l, s, i) == NormOf[compressed_cache[l + 1].keys[s][i]]
Ascending(l, s) ==
    \A i \in 1 .. SeqLenOut(l) - 1 : NormOut(l, s, i) <= NormOut(l, s, i + 1)

\* C1: with keep_ratio in (0, 1], every slice of every compacted layer of the
\* returned cache holds exactly ceil(keep_ratio * seq_len) tokens of the input
\* slice, none of them with a larger key norm than a token that was dropped,
\* in ascending order of key norm.
C1_SmallestNormsKept ==
    (Returned /\ ValidRatio) =>
        \A l \in LayerIdx : ToCompact(l) =>
            \A s \in Slices :
                /\ SeqLenOut(l) = CeilOf(keep_ratio, SeqLenIn(l))
                /\ Len(compressed_cache[l + 1].keys[s]) = SeqLenOut(l)
                /\ \E f \in InjOf[SeqLenOut(l)][SeqLenIn(l)] :
                      /\ ComesFrom(l, s, f)
                      /\ \A i \in DOMAIN f :
                            \A t \in (1 .. SeqLenIn(l)) \ Range(f) :
                                NormOut(l, s, i) <= NormIn(l, s, t)
                /\ Ascending(l, s)

\* a compacted layer that lost a token whose norm is larger than a kept one's
C1_Witness ==
    /\ Returned /\ ValidRatio
    /\ \E l \in LayerIdx, s \in Slices :
          /\ ToCompact(l)
          /\ SeqLenOut(l) >= 1 /\ SeqLenOut(l) < SeqLenIn(l)
          /\ \E t \in 1 .. SeqLenIn(l) : NormIn(l, s, t) > NormOut(l, s, SeqLenOut(l))
          /\ NormIn(l, s, 1) > NormOut(l, s, 1)

\* C2: with keep_ratio in (0, 1], keys and values of a compacted layer come
\* out ceil(keep_ratio * seq_len) tokens long, every layer comes out either as
\* long as it went in or that long, and 0.6 of 13 tokens is 8 tokens.
C2_CeilingLength ==
    /\ tokens_to_keep(<<3, 5>>, 13) = 8
    /\ (Returned /\ ValidRatio) =>
          \A l \in LayerIdx : \A s \in Slices :
             LET nk == Len(compressed_cache[l + 1].keys[s])
                 nv == Len(compressed_cache[l + 1].values[s])
             IN /\ nk = nv
                /\ ToCompact(l) => nk = CeilOf(keep_ratio, SeqLenIn(l))
                /\ nk = SeqLenIn(l) \/ nk = CeilOf(keep_ratio, SeqLenIn(l))

\* a layer of 3 tokens compacted with keep_ratio 0.6 (1.8 tokens) keeps 2
C2_Witness ==
    /\ Returned /\ keep_ratio = <<3, 5>>
    /\ \E l \in LayerIdx : ToCompact(l) /\ SeqLenIn(l) = 3 /\ SeqLenOut(l) = 2

\* no two tokens of a slice of the input have the same key norm
NoEqualNorms ==
    \A l \in LayerIdx, s \in Slices :
        \A t, u \in 1 .. SeqLenIn(l) : NormIn(l, s, t) = NormIn(l, s, u) => t = u
\* every layer of the input holds at least two tokens
TwoTokensEach == \A l \in LayerIdx : SeqLenIn(l) >= 2

\* C3: with keep_ratio = 1 the returned cache is the input cache, token order
\* included (stated for prune_after >= 0 and inputs without equal key norms,
\* where the order the sort gives does not depend on how it breaks ties).
C3_IdentityAtRatioOne ==
    (Returned /\ keep_ratio = <<1, 1>> /\ prune_after >= 0 /\ NoEqualNorms)
        => compressed_cache = snapshot

\* C4: a call with keep_ratio outside (0, 1] or prune_after negative fails and
\* returns no cache (stated for inputs with at least two tokens in every
\* layer, on which the call has something to truncate or reorder).
C4_ConfigurationError ==
    (Called /\ ~ValidConfig /\ TwoTokensEach) => Raised

\* C5: a compacted slice is the input slice put in the order of the stable
\* ascending sort on key norm (equal norms in their original order) and cut
\* to tokens_to_keep tokens.
StableRank == [t \in 1 .. MaxSeqLen |-> t]
C5_StableSort ==
    (Returned /\ ValidConfig) =>
        \A l \in LayerIdx : ToCompact(l) =>
            compressed_cache[l + 1] =
                truncated(snapshot[l + 1],
                          sorted_indices(snapshot[l + 1].keys, StableRank),
                          CeilOf(keep_ratio, SeqLenIn(l)))

\* C6: in every slice of every compacted layer of the returned cache, the key
\* and the value at an output position come from one and the same position of
\* that slice of the input layer, and no input position is used twice.
C6_KeyValuePairing ==
    Returned =>
        \A l \in LayerIdx : ToCompact(l) =>
            \A s \in Slices :
                /\ Len(compressed_cache[l + 1].keys[s])
                     = Len(compressed_cache[l + 1].values[s])
                /\ SeqLenOut(l) <= SeqLenIn(l)
                /\ \E f \in InjOf[SeqLenOut(l)][SeqLenIn(l)] : ComesFrom(l, s, f)

\* a compacted layer whose tokens changed place
C6_Witness ==
    /\ Returned
    /\ \E l \in LayerIdx, s \in Slices :
          /\ ToCompact(l)
          /\ SeqLenOut(l) >= 2
          /\ compressed_cache[l + 1].values[s][1] # snapshot[l + 1].values[s][1]
          /\ compressed_cache[l + 1].keys[s][1] # snapshot[l + 1].keys[s][1]

\* C7: every layer named in skip_layers is returned, keys and values as they
\* went in, whatever its seq_len (stated for calls with keep_ratio in (0, 1]
\* and prune_after >= 0 in which every layer outside skip_layers holds at
\* least two tokens).
C7_SkippedLayersReturned ==
    (Called /\ ValidConfig
       /\ \A l \in LayerIdx \ skip_layers : SeqLenIn(l) >= 2) =>
        \A l \in LayerIdx \cap skip_layers :
            Returned /\ compressed_cache[l + 1] = snapshot[l + 1]

\* C8: a layer outside skip_layers with seq_len = prune_after is compacted
\* (ascending key norms, cut to tokens_to_keep), and a layer with
\* seq_len < prune_after is returned unchanged.
C8_ThresholdBoundary ==
    (Called /\ ValidConfig) =>
        \A l \in LayerIdx :
            /\ (l \notin skip_layers /\ SeqLenIn(l) = prune_after) =>
                  /\ Returned
                  /\ SeqLenOut(l) = CeilOf(keep_ratio, SeqLenIn(l))
                  /\ \A s \in Slices : Ascending(l, s)
            /\ (Returned /\ SeqLenIn(l) < prune_after) =>
                  compressed_cache[l + 1] = snapshot[l + 1]

\* C9: after a call, returned or raised, the cache object the caller passed in
\* holds what it held when the call was made.
C9_InputNotMutated ==
    Called => past_key_values = snapshot

\* a call that raised at a later layer after it had compacted and stored an
\* earlier one
C9_Witness ==
    /\ Raised /\ keep_ratio = <<1, 2>>
    /\ \E l \in LayerIdx :
          /\ ToCompact(l) /\ SeqLenIn(l) >= 2
          /\ \E l2 \in LayerIdx : l2 > l /\ SeqLenIn(l2) = 1
                                  /\ SeqLenIn(l2) >= prune_after

\* C10: along a chain of calls, each on the cache the previous one returned,
\* with keep_ratio in (0, 1] and prune_after >= 0, the number of layers stays,
\* no layer grows, no layer holding a token becomes empty, and a layer below
\* prune_after or of a length n with ceil(keep_ratio * n) = n keeps its length.
C10_ChainNeverGrowsNorEmpties ==
    (Returned /\ ValidConfig) =>
        /\ Len(compressed_cache) = Len(snapshot)
        /\ \A l \in LayerIdx :
              /\ SeqLenOut(l) <= SeqLenIn(l)
              /\ SeqLenIn(l) >= 1 => SeqLenOut(l) >= 1
              /\ (SeqLenIn(l) < prune_after
                    \/ CeilOf(keep_ratio, SeqLenIn(l)) = SeqLenIn(l))
                 => SeqLenOut(l) = SeqLenIn(l)

\* the second call of a chain shrinks a layer the first call had shrunk
C10_Witness ==
    /\ Returned /\ ValidConfig /\ calls >= 2
    /\ \E l \in LayerIdx :
          SeqLenOut(l) < SeqLenIn(l) /\ SeqLenIn(l) < MaxSeqLen

====
